---- MODULE Spec2Model ----
(***************************************************************************)
(* Model of the encrypted streaming chat pipeline of WindoC/chatai-gcp:    *)
(*   backend/services/encryption_service.py  (EncryptionService)           *)
(*   backend/services/gemini_service.py      (GeminiService)               *)
(*   backend/routers/chat.py                 (start_chat, continue_chat,   *)
(*                                            create_sse_stream)           *)
(*   backend/routers/conversations.py        (delete_conversation)         *)
(* Text is a sequence of code points, bytes are 0..255.  The document      *)
(* store (services/firestore_service) is not part of the sources and is    *)
(* modelled from section 6 of the specification.                           *)
(***************************************************************************)
EXTENDS Integers, Sequences, FiniteSets, TLC

VARIABLES
    \* process-wide configuration (EncryptionService.__init__)
    encryption_enabled, expected_key_hash,
    \* the cipher exercised as a pure function (SpecCipher)
    c_pc, c_plain, c_key, c_enc, c_dec, c_calls, c_valid,
    \* GeminiService's pure functions exercised one call at a time (SpecGemini)
    g_op, g_in, g_out,
    \* the chat pipeline (Spec): the request slots in use, each request's
    \* state, the document store and its id allocator, the requests so far
    slots, reqs, store, next_id, nreq

cvars == <<c_pc, c_plain, c_key, c_enc, c_dec, c_calls, c_valid>>
gvars == <<g_op, g_in, g_out>>
cfgvars == <<encryption_enabled, expected_key_hash>>
chatvars == <<slots, reqs, store, next_id, nreq>>

\* Python's None for an unset key hash / key-identifier.
None == "None"

\* Key-identifiers a deployment may configure or a client may send.
KeyHashes == {"K1", "K2"}

---------------------------------------------------------------------------
(* Outcomes of a call: a returned value or a raised exception.             *)

Ok(v) == [ok |-> TRUE, value |-> v, exc |-> "", msg |-> ""]

Raise(e, m) == [ok |-> FALSE, value |-> <<>>, exc |-> e, msg |-> m]

\* class DecryptionError(EncryptionError), class KeyValidationError(EncryptionError)
IsEncryptionError(e) == e \in {"EncryptionError", "DecryptionError", "KeyValidationError"}

---------------------------------------------------------------------------
(* str.encode('utf-8') and bytes.decode('utf-8'), for code points below    *)
(* 0x800 (one- and two-byte forms).                                        *)

Utf8EncodeChar(cp) ==
    IF cp < 128 THEN <<cp>> ELSE <<192 + (cp \div 64), 128 + (cp % 64)>>

RECURSIVE Utf8Encode(_)
Utf8Encode(s) ==
    IF s = <<>> THEN <<>> ELSE Utf8EncodeChar(Head(s)) \o Utf8Encode(Tail(s))

\* A str with a lone surrogate has no UTF-8 form: encode raises.
Utf8Encodable(s) == \A i \in 1..Len(s) : s[i] < 55296 \/ s[i] > 57343

RECURSIVE Utf8Decode(_)
Utf8Decode(bs) ==
    IF bs = <<>> THEN Ok(<<>>)
    ELSE IF bs[1] < 128 THEN
        LET r == Utf8Decode(Tail(bs))
        IN  IF r.ok THEN Ok(<<bs[1]>> \o r.value) ELSE r
    ELSE IF bs[1] >= 194 /\ bs[1] <= 223 /\ Len(bs) >= 2
            /\ bs[2] >= 128 /\ bs[2] <= 191 THEN
        LET r == Utf8Decode(Tail(Tail(bs)))
        IN  IF r.ok THEN Ok(<<(bs[1] - 192) * 64 + (bs[2] - 128)>> \o r.value) ELSE r
    ELSE Raise("UnicodeDecodeError", "invalid utf-8")

---------------------------------------------------------------------------
(* base64.b64encode / base64.b64decode over the standard alphabet.         *)

B64Pad == 61

B64Char(v) ==
    IF v < 26 THEN 65 + v
    ELSE IF v < 52 THEN 97 + (v - 26)
    ELSE IF v < 62 THEN 48 + (v - 52)
    ELSE IF v = 62 THEN 43 ELSE 47

IsB64Data(c) ==
    \/ (c >= 65 /\ c <= 90) \/ (c >= 97 /\ c <= 122)
    \/ (c >= 48 /\ c <= 57) \/ c = 43 \/ c = 47

B64Val(c) ==
    IF c >= 65 /\ c <= 90 THEN c - 65
    ELSE IF c >= 97 /\ c <= 122 THEN c - 97 + 26
    ELSE IF c >= 48 /\ c <= 57 THEN c - 48 + 52
    ELSE IF c = 43 THEN 62 ELSE 63

\* The k-th character of the encoding: every three bytes give four
\* characters, a final group of one or two bytes is padded with '='.
B64EncodeChar(bs, k) ==
    LET j  == (k - 1) \div 4
        p  == (k - 1) % 4
        b1 == bs[3 * j + 1]
        b2 == IF 3 * j + 2 <= Len(bs) THEN bs[3 * j + 2] ELSE 0
        b3 == IF 3 * j + 3 <= Len(bs) THEN bs[3 * j + 3] ELSE 0
    IN  IF p = 0 THEN B64Char(b1 \div 4)
        ELSE IF p = 1 THEN B64Char((b1 % 4) * 16 + (b2 \div 16))
        ELSE IF p = 2
        THEN IF 3 * j + 2 > Len(bs) THEN B64Pad
             ELSE B64Char((b2 % 16) * 4 + (b3 \div 64))
        ELSE IF 3 * j + 3 > Len(bs) THEN B64Pad ELSE B64Char(b3 % 64)

B64Encode(bs) == [k \in 1..(4 * ((Len(bs) + 2) \div 3)) |-> B64EncodeChar(bs, k)]

\* The data characters of s (characters outside the alphabet are discarded).
B64Data(s) ==
    LET d == SelectSeq(s, IsB64Data)
    IN  [i \in 1..Len(d) |-> B64Val(d[i])]

B64Pads(s) == Len(SelectSeq(s, LAMBDA c : c = B64Pad))

\* The bytes of a run of sextets: every full group of four gives three bytes,
\* a final group of two or three gives one or two (spare bits dropped).
B64Byte(d, k) ==
    LET j == (k - 1) \div 3
        p == (k - 1) % 3
    IN  IF p = 0 THEN d[4 * j + 1] * 4 + (d[4 * j + 2] \div 16)
        ELSE IF p = 1 THEN (d[4 * j + 2] % 16) * 16 + (d[4 * j + 3] \div 4)
        ELSE (d[4 * j + 3] % 4) * 64 + d[4 * j + 4]

B64Bytes(d) ==
    LET r == Len(d) % 4
        n == (Len(d) \div 4) * 3 + (IF r = 2 THEN 1 ELSE IF r = 3 THEN 2 ELSE 0)
    IN  [k \in 1..n |-> B64Byte(d, k)]

\* b64decode of a str whose padding, if any, is at its end.
B64Decode(s) ==
    IF \E i \in 1..Len(s) : s[i] > 127
    THEN Raise("ValueError", "string argument should contain only ASCII characters")
    ELSE LET d == B64Data(s)
             p == B64Pads(s)
         IN  IF Len(d) % 4 = 1
             THEN Raise("binascii.Error", "Invalid base64-encoded string")
             ELSE IF (Len(d) % 4 = 2 /\ p < 2) \/ (Len(d) % 4 = 3 /\ p < 1)
             THEN Raise("binascii.Error", "Incorrect padding")
             ELSE Ok(B64Bytes(d))

---------------------------------------------------------------------------
(* The library primitives: hashlib.sha256 and AESGCM.  AES-GCM is modelled  *)
(* as an authenticated stream cipher: the ciphertext is the plaintext plus  *)
(* a key stream, the 16-byte tag is a function of key, nonce and ciphertext *)
(* that determines the ciphertext (of at most TagLen bytes).                *)

IVLen == 12

TagLen == 16

\* hashlib.sha256(expected_key_hash.encode()).digest(), as a key number.
Sha256Key(kh) == IF kh = "K1" THEN 17 ELSE IF kh = "K2" THEN 201 ELSE 90

KeyStream(key, iv, i) == (key + iv[((i - 1) % IVLen) + 1] * 7 + i * 13) % 256

GcmTag(key, iv, ct) ==
    [j \in 1..TagLen |->
        (key + iv[((j - 1) % IVLen) + 1] + (IF j <= Len(ct) THEN ct[j] * 3 ELSE 0)
         + Len(ct) * 5 + j) % 256]

\* AESGCM(key).encrypt(iv, data, None): ciphertext followed by the tag.
AESGCM_encrypt(key, iv, data) ==
    LET ct == [i \in 1..Len(data) |-> (data[i] + KeyStream(key, iv, i)) % 256]
    IN  ct \o GcmTag(key, iv, ct)

\* AESGCM(key).decrypt(iv, data, None): InvalidTag unless the tag matches.
AESGCM_decrypt(key, iv, data) ==
    IF Len(data) < TagLen THEN Raise("InvalidTag", "")
    ELSE LET ct  == SubSeq(data, 1, Len(data) - TagLen)
             tag == SubSeq(data, Len(data) - TagLen + 1, Len(data))
         IN  IF tag # GcmTag(key, iv, ct) THEN Raise("InvalidTag", "")
             ELSE Ok([i \in 1..Len(ct) |-> (ct[i] - KeyStream(key, iv, i)) % 256])

\* The nonces secrets.token_bytes(12) may return.
IVs == { [i \in 1..IVLen |-> i], [i \in 1..IVLen |-> (i * 37 + 5) % 256] }

---------------------------------------------------------------------------
(* EncryptionService                                                       *)

\* validate_key_hash without its check of the configuration
validate_key_hash_unconfigured(key_hash) ==
    IF ~encryption_enabled THEN Ok(TRUE) ELSE Ok(key_hash = expected_key_hash)

validate_key_hash(key_hash) ==
    IF ~encryption_enabled THEN Ok(TRUE)
    ELSE IF expected_key_hash = None
    THEN Raise("KeyValidationError", "AES key hash not configured")
    ELSE Ok(key_hash = expected_key_hash)

\* aes_key = hashlib.sha256(self.expected_key_hash.encode()).digest()
DeriveKey == Sha256Key(expected_key_hash)

\* iv = encrypted_bytes[:12]; ciphertext_with_tag = encrypted_bytes[12:]
SplitSwapped(encrypted_bytes) ==
    [iv |-> SubSeq(encrypted_bytes, Len(encrypted_bytes) - IVLen + 1, Len(encrypted_bytes)),
     ciphertext_with_tag |-> SubSeq(encrypted_bytes, 1, Len(encrypted_bytes) - IVLen)]

SplitPayload(encrypted_bytes) ==
    [iv |-> SubSeq(encrypted_bytes, 1,
                   IF Len(encrypted_bytes) < IVLen THEN Len(encrypted_bytes) ELSE IVLen),
     ciphertext_with_tag |-> SubSeq(encrypted_bytes, IVLen + 1, Len(encrypted_bytes))]

\* if len(encrypted_bytes) < 12: raise DecryptionError("... too short")
TooShortNever(encrypted_bytes) == FALSE

TooShort(encrypted_bytes) == Len(encrypted_bytes) < IVLen

TOO_SHORT == "Invalid encrypted data: too short"

AUTH_FAILED == "Decryption failed: invalid authentication tag"

\* except InvalidTag: ...; except Exception as e: ... f"Decryption failed: {str(e)}"
DecryptExceptGeneric(r) == Raise("DecryptionError", "Decryption failed: " \o r.msg)

DecryptExcept(r) ==
    IF r.exc = "InvalidTag" THEN Raise("DecryptionError", AUTH_FAILED)
    ELSE Raise("DecryptionError", "Decryption failed: " \o r.msg)

\* The try block of decrypt_payload; every exception but InvalidTag, the
\* function's own "too short" error included, leaves through `except Exception`.
DecryptBody(encrypted_data) ==
    LET decoded == B64Decode(encrypted_data)
    IN  IF ~decoded.ok THEN DecryptExcept(decoded)
        ELSE IF TooShort(decoded.value)
        THEN DecryptExcept(Raise("DecryptionError", TOO_SHORT))
        ELSE LET parts == SplitPayload(decoded.value)
                 plain == AESGCM_decrypt(DeriveKey, parts.iv, parts.ciphertext_with_tag)
             IN  IF ~plain.ok THEN DecryptExcept(plain)
                 ELSE LET text == Utf8Decode(plain.value)
                      IN  IF text.ok THEN text ELSE DecryptExcept(text)

\* decrypt_payload without its validation of the key hash
decrypt_payload_unvalidated(encrypted_data, key_hash) ==
    IF ~encryption_enabled THEN Raise("EncryptionError", "Encryption is not enabled")
    ELSE DecryptBody(encrypted_data)

decrypt_payload(encrypted_data, key_hash) ==
    IF ~encryption_enabled THEN Raise("EncryptionError", "Encryption is not enabled")
    ELSE LET valid == validate_key_hash(key_hash)
         IN  IF ~valid.ok THEN Raise(valid.exc, valid.msg)
             ELSE IF ~valid.value THEN Raise("KeyValidationError", "Invalid AES key hash")
             ELSE DecryptBody(encrypted_data)

\* The calls decrypt_payload makes, in order, up to the one that fails.
DecryptCalls(encrypted_data, key_hash) ==
    IF ~encryption_enabled THEN <<>>
    ELSE LET valid == validate_key_hash(key_hash)
         IN  IF ~valid.ok \/ ~valid.value THEN <<"validate_key_hash">>
             ELSE LET decoded == B64Decode(encrypted_data)
                  IN  IF ~decoded.ok \/ TooShort(decoded.value)
                      THEN <<"validate_key_hash", "b64decode">>
                      ELSE LET parts == SplitPayload(decoded.value)
                               plain == AESGCM_decrypt(DeriveKey, parts.iv,
                                                       parts.ciphertext_with_tag)
                           IN  <<"validate_key_hash", "b64decode", "split", "sha256",
                                 "AESGCM.decrypt">>
                               \o (IF plain.ok THEN <<"decode">> ELSE <<>>)

\* encrypt_payload with the nonce that secrets.token_bytes(12) returned.
encrypt_payload(plaintext, key_hash, iv) ==
    IF ~encryption_enabled THEN Raise("EncryptionError", "Encryption is not enabled")
    ELSE LET valid == validate_key_hash(key_hash)
         IN  IF ~valid.ok THEN Raise(valid.exc, valid.msg)
             ELSE IF ~valid.value THEN Raise("KeyValidationError", "Invalid AES key hash")
             ELSE IF ~Utf8Encodable(plaintext)
             THEN Raise("EncryptionError", "Encryption failed: surrogates not allowed")
             ELSE Ok(B64Encode(iv \o AESGCM_encrypt(DeriveKey, iv, Utf8Encode(plaintext))))

\* The calls encrypt_payload makes, in order, up to the one that fails.
EncryptCalls(plaintext, key_hash) ==
    IF ~encryption_enabled THEN <<>>
    ELSE LET valid == validate_key_hash(key_hash)
         IN  IF ~valid.ok \/ ~valid.value THEN <<"validate_key_hash">>
             ELSE <<"validate_key_hash", "token_bytes", "sha256">>
                  \o (IF Utf8Encodable(plaintext) THEN <<"AESGCM.encrypt", "b64encode">>
                      ELSE <<>>)

---------------------------------------------------------------------------
(* GeminiService.generate_response_stream and generate_title, as the       *)
(* orchestrator sees them.                                                 *)

MaxChunks == 2

\* The text of the i-th upstream chunk that has text: "a", "b", "c", ...
FragmentText(i) == <<96 + i>>

\* A chunk text with a lone surrogate ("\ud800", as JSON can carry it)
SURROGATE_TEXT == <<55296>>

\* The texts the i-th upstream chunk may have: the surrogate text is offered
\* for the first chunk, which is enough for every later step to see it.
UpstreamTexts(i) == IF i = 1 THEN {FragmentText(i), SURROGATE_TEXT} ELSE {FragmentText(i)}

\* yield f"Error: Unable to generate response. Please try again."  ("Err")
GEN_ERROR_TEXT == <<69, 114, 114>>

\* contents: the last 10 history contents, then the current message
HistoryLimit == 10

\* s[:n]
FirstN(s, n) == IF Len(s) <= n THEN s ELSE SubSeq(s, 1, n)

\* s[-n:]
OldestN(s, n) == IF Len(s) <= n THEN s ELSE SubSeq(s, 1, n)

LastN(s, n) == IF Len(s) <= n THEN s ELSE SubSeq(s, Len(s) - n + 1, Len(s))

BuildContents(message, conversation_history) ==
    LastN(conversation_history, HistoryLimit) \o <<message>>

\* "".join(response_chunks)
RECURSIVE Join(_)
Join(chunks) == IF chunks = <<>> THEN <<>> ELSE Head(chunks) \o Join(Tail(chunks))

---------------------------------------------------------------------------
(* GeminiService.generate_title                                            *)

\* str.isspace() for the code points below 0x800
IsSpace(c) == c \in {9, 10, 11, 12, 13, 28, 29, 30, 31, 32, 133, 160}

\* The first word of s (s does not start with whitespace).
RECURSIVE FirstWord(_)
FirstWord(s) ==
    IF s = <<>> \/ IsSpace(Head(s)) THEN <<>> ELSE <<Head(s)>> \o FirstWord(Tail(s))

\* str.split(): the maximal runs of non-whitespace
RECURSIVE Split(_)
Split(s) ==
    IF s = <<>> THEN <<>>
    ELSE IF IsSpace(Head(s)) THEN Split(Tail(s))
    ELSE LET w == FirstWord(s)
         IN  <<w>> \o Split(SubSeq(s, Len(w) + 1, Len(s)))

\* " ".join(words)
RECURSIVE JoinSpace(_)
JoinSpace(words) ==
    IF words = <<>> THEN <<>>
    ELSE IF Len(words) = 1 THEN words[1]
    ELSE words[1] \o <<32>> \o JoinSpace(Tail(words))

\* str.strip(chars) / str.strip(): chars is the set of code points removed
RECURSIVE LStrip(_, _)
LStrip(s, chars) ==
    IF s # <<>> /\ Head(s) \in chars THEN LStrip(Tail(s), chars) ELSE s

RECURSIVE RStrip(_, _)
RStrip(s, chars) ==
    IF s # <<>> /\ s[Len(s)] \in chars THEN RStrip(SubSeq(s, 1, Len(s) - 1), chars) ELSE s

Strip(s, chars) == RStrip(LStrip(s, chars), chars)

Whitespace == {c \in 0..255 : IsSpace(c)}

TitleLimit == 50

FallbackWords == 5

\* "..."
ELLIPSIS == <<46, 46, 46>>

\* ("..." if len(words) >= 5 else "")
NeedsEllipsisNever(words) == FALSE

NeedsEllipsis(words) == Len(words) >= FallbackWords

\* words = first_message.split()[:5]; return " ".join(words) + (...)
TitleFallback(first_message) ==
    LET words == FirstN(Split(first_message), FallbackWords)
    IN  JoinSpace(words) \o (IF NeedsEllipsis(words) THEN ELLIPSIS ELSE <<>>)

\* title = response.text.strip().strip('"').strip("'"); title[:50]
CleanTitle(text) ==
    LET title == Strip(Strip(Strip(text, Whitespace), {34}), {39})
    IN  IF Len(title) > TitleLimit THEN SubSeq(title, 1, TitleLimit) ELSE title

\* What generate_content did for the title prompt: it raised, or returned a
\* response whose text is a str or None.
TitleResponse(raises, has_text, text) ==
    [raises |-> raises, has_text |-> has_text, text |-> text]

\* generate_title(first_message), given what the upstream call did; a None
\* text fails in .strip() and takes the except clause as well.
generate_title(first_message, response) ==
    IF response.raises \/ ~response.has_text THEN TitleFallback(first_message)
    ELSE CleanTitle(response.text)

---------------------------------------------------------------------------
(* GeminiService._insert_inline_citations                                  *)

GroundingSupport(start_index, end_index, reference_indices) ==
    [start_index |-> start_index, end_index |-> end_index,
     reference_indices |-> reference_indices]

\* f'[{idx}]' for a one-digit idx
Citation(idx) == <<91, 48 + idx, 93>>

\* ''.join([f'[{idx}]' for idx in support.reference_indices])
RECURSIVE Citations(_)
Citations(reference_indices) ==
    IF reference_indices = <<>> THEN <<>>
    ELSE Citation(Head(reference_indices)) \o Citations(Tail(reference_indices))

\* x put into a list sorted by start_index, descending, behind the elements
\* that compare equal (sorted() is stable, with reverse=True as well).
RECURSIVE InsertSorted(_, _)
InsertSorted(sorted, x) ==
    IF sorted = <<>> THEN <<x>>
    ELSE IF Head(sorted).start_index < x.start_index THEN <<x>> \o sorted
    ELSE <<Head(sorted)>> \o InsertSorted(Tail(sorted), x)

\* sorted(grounding_supports, key=lambda x: x.start_index, reverse=True)
RECURSIVE SortedSupports(_)
SortedSupports(grounding_supports) ==
    IF grounding_supports = <<>> THEN <<>>
    ELSE InsertSorted(
            SortedSupports(SubSeq(grounding_supports, 1, Len(grounding_supports) - 1)),
            grounding_supports[Len(grounding_supports)])

\* One pass of the loop body on result_text.
InsertCitation(result_text, support) ==
    IF support.reference_indices # <<>> /\ support.end_index <= Len(result_text)
    THEN SubSeq(result_text, 1, support.end_index)
         \o Citations(support.reference_indices)
         \o SubSeq(result_text, support.end_index + 1, Len(result_text))
    ELSE result_text

RECURSIVE InsertAll(_, _)
InsertAll(result_text, sorted_supports) ==
    IF sorted_supports = <<>> THEN result_text
    ELSE InsertAll(InsertCitation(result_text, Head(sorted_supports)), Tail(sorted_supports))

_insert_inline_citations(text, grounding_supports) ==
    InsertAll(text, SortedSupports(grounding_supports))

---------------------------------------------------------------------------
(* GeminiService.generate_response_with_grounding: the references          *)

\* A grounding chunk: with or without web data, whose uri may be empty.
GroundingChunk(has_web, uri) == [has_web |-> has_web, uri |-> uri]

\* Reference(id=i + 1, ..., url=uri, ...), i being the index of enumerate
ReferenceIdFirst(i) == 1

ReferenceId(i) == i + 1

Reference(id, url) == [id |-> id, url |-> url]

\* for i, chunk in enumerate(grounding_chunks): a reference is appended for
\* every chunk that has web data with a uri (k is i + 1).
RECURSIVE ReferencesFrom(_, _)
ReferencesFrom(grounding_chunks, k) ==
    IF k > Len(grounding_chunks) THEN <<>>
    ELSE (IF grounding_chunks[k].has_web /\ grounding_chunks[k].uri # ""
          THEN <<Reference(ReferenceId(k - 1), grounding_chunks[k].uri)>>
          ELSE <<>>)
         \o ReferencesFrom(grounding_chunks, k + 1)

ExtractReferences(grounding_chunks) == ReferencesFrom(grounding_chunks, 1)

---------------------------------------------------------------------------
(* The document store (services.firestore_service), from section 6 of the  *)
(* specification: get / create / append / delete, each one atomic; a write *)
(* that raises changes nothing.                                            *)

NoId == 0

MaxRequests == 1

\* The initial conversation and one id for every request that may create one
ConvIds == 1..(2 * MaxRequests + 1)

NoConv == [exists |-> FALSE, messages |-> <<>>, title |-> ""]

\* Message(role=..., content=...), tagged with the turn that wrote it.
Message(role, content, turn) == [role |-> role, content |-> content, turn |-> turn]

\* get(conversation_id) -> Conversation?
StoreGet(st, id) == st[id]

\* append(conversation_id, user_msg, assistant_msg) -> bool
StoreAppend(st, id, msgs) ==
    IF st[id].exists
    THEN [store |-> [st EXCEPT ![id].messages = @ \o msgs], result |-> TRUE]
    ELSE [store |-> st, result |-> FALSE]

\* create(user_msg, assistant_msg, title) -> conversation_id
StoreCreate(st, id, msgs, title) ==
    [store |-> [st EXCEPT ![id] = [exists |-> TRUE, messages |-> msgs, title |-> title]],
     result |-> id]

\* delete(conversation_id) -> bool
StoreDelete(st, id) ==
    IF st[id].exists
    THEN [store |-> [st EXCEPT ![id] = NoConv], result |-> TRUE]
    ELSE [store |-> st, result |-> FALSE]

---------------------------------------------------------------------------
(* The requests a client may send (ChatRequest): a message that is a str   *)
(* or an EncryptedContent object, the encrypted flag, the key hash.        *)

\* The user's text: "hi"
PlainMsg == <<104, 105>>

ClientIV == [i \in 1..IVLen |-> (i * 11) % 256]

\* What a client holding key-identifier K1 sends for PlainMsg.
ValidCipher ==
    B64Encode(ClientIV \o AESGCM_encrypt(Sha256Key("K1"), ClientIV, Utf8Encode(PlainMsg)))

\* ValidCipher with its last ciphertext-and-tag character changed.
TamperedCipher ==
    [ValidCipher EXCEPT ![Len(ValidCipher) - 2] = IF @ = 65 THEN 66 ELSE 65]

\* base64 of fewer than 12 bytes
ShortPayload == B64Encode(<<1, 2, 3, 4, 5, 6>>)

StrMessage(content) == [kind |-> "str", content |-> content, key_hash |-> None]

EncryptedContent(content, key_hash) ==
    [kind |-> "EncryptedContent", content |-> content, key_hash |-> key_hash]

\* A plaintext str comes unflagged; a flagged str or an EncryptedContent
\* (always flagged) carries any of the payloads.
ChatRequests ==
    { [message |-> StrMessage(PlainMsg), encrypted |-> FALSE, key_hash |-> k] :
        k \in {None, "K1"} }
    \cup
    { [message |-> StrMessage(c), encrypted |-> TRUE, key_hash |-> k] :
        c \in {ValidCipher, TamperedCipher, ShortPayload, PlainMsg},
        k \in KeyHashes \cup {None} }
    \cup
    { [message |-> EncryptedContent(c, k), encrypted |-> TRUE, key_hash |-> None] :
        c \in {ValidCipher, TamperedCipher, ShortPayload}, k \in KeyHashes }

NoRequest == [message |-> StrMessage(<<>>), encrypted |-> FALSE, key_hash |-> None]

---------------------------------------------------------------------------
(* routers/chat.py: the events of the stream                               *)

BaseEvent ==
    [type |-> "", content |-> <<>>, encrypted |-> FALSE, key_hash |-> None,
     error |-> "", conversation_id |-> NoId]

\* {'type': 'conversation_start'}
ConversationStartEvent == [BaseEvent EXCEPT !.type = "conversation_start"]

\* chunk_data = {'type': 'chunk', 'content': chunk}
PlainChunkDataTwice(chunk) ==
    [BaseEvent EXCEPT !.type = "chunk", !.content = chunk \o chunk]

PlainChunkData(chunk) ==
    [BaseEvent EXCEPT !.type = "chunk", !.content = chunk]

\* The chunk event of one fragment: encrypted under key_hash when encryption
\* is enabled and a key hash was given; if encrypt_payload raises, the
\* plaintext chunk_data goes out with an 'error' entry added.
ChunkData(chunk, key_hash, iv) ==
    IF encryption_enabled /\ key_hash # None
    THEN LET encrypted_chunk == encrypt_payload(chunk, key_hash, iv)
         IN  IF encrypted_chunk.ok
             THEN [BaseEvent EXCEPT !.type = "chunk", !.content = encrypted_chunk.value,
                                    !.encrypted = TRUE, !.key_hash = key_hash]
             ELSE [PlainChunkData(chunk) EXCEPT !.error = "Encryption failed"]
    ELSE PlainChunkData(chunk)

\* {'type': 'done', 'conversation_id': final_conversation_id}
DoneEvent(final_conversation_id) ==
    [BaseEvent EXCEPT !.type = "done", !.conversation_id = final_conversation_id]

GENERIC_ERROR == "An error occurred while generating the response. Please try again."

\* {'type': 'error', 'error': error_msg}
ErrorEvent == [BaseEvent EXCEPT !.type = "error", !.error = GENERIC_ERROR]

---------------------------------------------------------------------------
(* routers/chat.py: start_chat and continue_chat                           *)

Requests == {"r1", "r2"}

IdleRequest ==
    [pc |-> "idle", route |-> "", request |-> NoRequest, path_id |-> NoId, turn |-> 0,
     path_exists |-> FALSE, get_raised |-> FALSE, status |-> 0, detail |-> "",
     message |-> <<>>, conversation_id |-> NoId, key_hash |-> None,
     conversation_history |-> <<>>, hist_missing |-> FALSE, contents |-> <<>>,
     fragments |-> <<>>, adapter_done |-> FALSE,
     response_chunks |-> <<>>, events |-> <<>>, title |-> "",
     write |-> [state |-> "none", ok |-> FALSE, id |-> NoId, msgs |-> <<>>, at |-> 0],
     store_calls |-> <<>>, gen_calls |-> 0, cancelled |-> FALSE]

Pass(m, k) ==
    [ok |-> TRUE, message |-> m, key_hash |-> k, exc |-> "", status |-> 0, detail |-> ""]

Fail(e, status, detail) ==
    [ok |-> FALSE, message |-> <<>>, key_hash |-> None, exc |-> e, status |-> status,
     detail |-> detail]

DecryptWith(content, key_hash) ==
    LET d == decrypt_payload(content, key_hash)
    IN  IF d.ok THEN Pass(d.value, key_hash) ELSE Fail(d.exc, 0, d.msg)

\* The block without its last branch: an unflagged str passes as it is.
DecryptStepLenient(q) ==
    IF q.encrypted \/ encryption_enabled
    THEN IF q.message.kind = "EncryptedContent"
         THEN DecryptWith(q.message.content, q.message.key_hash)
         ELSE IF q.encrypted /\ q.key_hash # None
         THEN DecryptWith(q.message.content, q.key_hash)
         ELSE Pass(q.message.content, q.key_hash)
    ELSE Pass(q.message.content, q.key_hash)

\* "Handle message decryption if needed": the block both routes start with.
DecryptStep(q) ==
    IF q.encrypted \/ encryption_enabled
    THEN IF q.message.kind = "EncryptedContent"
         THEN DecryptWith(q.message.content, q.message.key_hash)
         ELSE IF q.encrypted
         THEN IF q.key_hash = None
              THEN Fail("HTTPException", 400, "Key hash required for encrypted messages")
              ELSE DecryptWith(q.message.content, q.key_hash)
         ELSE Fail("HTTPException", 501,
                   "Encryption is required but message is not encrypted")
    ELSE Pass(q.message.content, q.key_hash)

\* start_chat's except clauses: an HTTPException raised in the try block is
\* an Exception and leaves through the last clause.
start_chat_except_500(f) == [status |-> 500, detail |-> "Failed to start chat"]

start_chat_except(f) ==
    IF IsEncryptionError(f.exc) THEN [status |-> 400, detail |-> f.detail]
    ELSE [status |-> 500, detail |-> "Failed to start chat"]

\* continue_chat's except clauses: HTTPException is re-raised first.
continue_chat_except(f) ==
    IF f.exc = "HTTPException" THEN [status |-> f.status, detail |-> f.detail]
    ELSE IF IsEncryptionError(f.exc) THEN [status |-> 400, detail |-> f.detail]
    ELSE [status |-> 500, detail |-> "Failed to continue chat"]

\* if not conversation: raise HTTPException(status_code=404, ...)
ConversationMissingNever(conversation) == FALSE

ConversationMissing(conversation) == ~conversation.exists

Arrived(route, q, id, turn) ==
    [IdleRequest EXCEPT !.route = route, !.request = q, !.path_id = id, !.turn = turn]

Rejected(a, h) == [a EXCEPT !.pc = "rejected", !.status = h.status, !.detail = h.detail]

\* return StreamingResponse(create_sse_stream(decrypted_message, ...))
Streaming(a, d, id) ==
    [a EXCEPT !.pc = "begin", !.status = 200, !.message = d.message,
              !.conversation_id = id, !.key_hash = d.key_hash]

start_chat(r, q) ==
    /\ r \in slots /\ reqs[r].pc = "idle" /\ nreq < MaxRequests * Cardinality(slots)
    /\ LET d == DecryptStep(q)
           a == Arrived("start", q, NoId, nreq + 1)
       IN  reqs' = [reqs EXCEPT ![r] =
                IF d.ok THEN Streaming(a, d, NoId) ELSE Rejected(a, start_chat_except(d))]
    /\ nreq' = nreq + 1
    /\ UNCHANGED <<slots, store, next_id, cfgvars, cvars, gvars>>

continue_chat(r, id, q) ==
    /\ r \in slots /\ reqs[r].pc = "idle" /\ nreq < MaxRequests * Cardinality(slots)
    /\ \E store_raises \in BOOLEAN :
        LET d == DecryptStep(q)
            a == [Arrived("continue", q, id, nreq + 1) EXCEPT
                    !.path_exists = StoreGet(store, id).exists]
            g == [a EXCEPT !.store_calls = <<"get">>, !.get_raised = store_raises]
        IN  reqs' = [reqs EXCEPT ![r] =
                IF ~d.ok THEN Rejected(a, continue_chat_except(d))
                ELSE IF store_raises
                THEN Rejected(g, continue_chat_except(Fail("Exception", 0, "store")))
                ELSE IF ConversationMissing(StoreGet(store, id))
                THEN Rejected(g, continue_chat_except(
                                    Fail("HTTPException", 404, "Conversation not found")))
                ELSE Streaming(g, d, id)]
    /\ nreq' = nreq + 1
    /\ UNCHANGED <<slots, store, next_id, cfgvars, cvars, gvars>>

---------------------------------------------------------------------------
(* routers/chat.py: create_sse_stream, one action per run of the generator *)
(* from one suspension point (an await or a yield) to the next.            *)

\* except Exception: ... yield the error event
ExceptEventsNone == <<>>

ExceptEvents == <<ErrorEvent>>

\* if not conversation_id: yield conversation_start
IsNewChatAlways(conversation_id) == TRUE

IsNewChat(conversation_id) == conversation_id = NoId

\* [{"role": msg.role.value, "content": msg.content} for msg in conversation.messages]
HistoryOf(conversation) ==
    [i \in 1..Len(conversation.messages) |->
        [role |-> conversation.messages[i].role,
         content |-> conversation.messages[i].content]]

ContentsOf(conversation_history) ==
    [i \in 1..Len(conversation_history) |-> conversation_history[i].content]

\* The stream leaves through its except clause.
StreamFails(q) == [q EXCEPT !.pc = "closed", !.events = @ \o ExceptEvents]

\* generate_response_stream is called: it builds contents and awaits the
\* upstream stream.
CallGenerator(q) ==
    [q EXCEPT !.pc = "gen_wait", !.gen_calls = @ + 1,
              !.contents = BuildContents(q.message, ContentsOf(q.conversation_history))]

\* New chat: the stream's first run yields conversation_start.
StreamStart(r) ==
    /\ reqs[r].pc = "begin" /\ IsNewChat(reqs[r].conversation_id)
    /\ reqs' = [reqs EXCEPT ![r].pc = "start_yield",
                            ![r].events = Append(@, ConversationStartEvent)]
    /\ UNCHANGED <<slots, store, next_id, nreq, cfgvars, cvars, gvars>>

\* Resumed after conversation_start: the generator is called.
StreamResumeStart(r) ==
    /\ reqs[r].pc = "start_yield"
    /\ reqs' = [reqs EXCEPT ![r] = CallGenerator(@)]
    /\ UNCHANGED <<slots, store, next_id, nreq, cfgvars, cvars, gvars>>

\* Continuing chat: get_conversation returns (or raises); a missing
\* conversation leaves conversation_history empty.
StreamLoadHistory(r) ==
    /\ reqs[r].pc = "begin" /\ ~IsNewChat(reqs[r].conversation_id)
    /\ \E store_raises \in BOOLEAN :
        LET q == [reqs[r] EXCEPT !.store_calls = Append(@, "get")]
            conversation == StoreGet(store, q.conversation_id)
        IN  reqs' = [reqs EXCEPT ![r] =
                IF store_raises THEN StreamFails(q)
                ELSE IF conversation.exists
                THEN CallGenerator([q EXCEPT !.conversation_history = HistoryOf(conversation)])
                ELSE CallGenerator([q EXCEPT !.hist_missing = TRUE])]
    /\ UNCHANGED <<slots, store, next_id, nreq, cfgvars, cvars, gvars>>

\* response_chunks.append(chunk); ...; yield the chunk event
EmitChunkBuffered(q, chunk, iv) ==
    [q EXCEPT !.pc = "gen_wait",
              !.fragments = Append(@, chunk),
              !.response_chunks = Append(@, chunk)]

EmitChunk(q, chunk, iv) ==
    [q EXCEPT !.pc = "chunk_yield",
              !.fragments = Append(@, chunk),
              !.response_chunks = Append(@, chunk),
              !.events = Append(@, ChunkData(chunk, q.key_hash, iv))]

\* The loop is over: the save begins with an await of the store (continuing
\* chat) or of generate_title (new chat).
BeginSave(q) ==
    [q EXCEPT !.pc = IF q.conversation_id # NoId THEN "write_wait" ELSE "title_wait"]

\* The upstream stream delivers a chunk that has text: the adapter yields it.
GenChunk(r) ==
    /\ reqs[r].pc = "gen_wait" /\ Len(reqs[r].fragments) < MaxChunks
    /\ \E iv \in IVs, text \in UpstreamTexts(Len(reqs[r].fragments) + 1) :
        reqs' = [reqs EXCEPT ![r] = EmitChunk(@, text, iv)]
    /\ UNCHANGED <<slots, store, next_id, nreq, cfgvars, cvars, gvars>>

\* ... a chunk without text (if chunk.text is false): the adapter goes on.
GenEmptyChunk(r) ==
    /\ reqs[r].pc = "gen_wait"
    /\ reqs' = [reqs EXCEPT ![r].pc = "gen_wait"]
    /\ UNCHANGED <<slots, store, next_id, nreq, cfgvars, cvars, gvars>>

\* ... or raises: the adapter yields its error text and ends.
GenFailsRaises(r) ==
    /\ reqs[r].pc = "gen_wait"
    /\ reqs' = [reqs EXCEPT ![r] = StreamFails([@ EXCEPT !.adapter_done = TRUE])]
    /\ UNCHANGED <<slots, store, next_id, nreq, cfgvars, cvars, gvars>>

GenFails(r) ==
    /\ reqs[r].pc = "gen_wait"
    /\ \E iv \in IVs :
        reqs' = [reqs EXCEPT ![r] =
            EmitChunk([@ EXCEPT !.adapter_done = TRUE], GEN_ERROR_TEXT, iv)]
    /\ UNCHANGED <<slots, store, next_id, nreq, cfgvars, cvars, gvars>>

\* ... or ends: the adapter ends.
GenEnds(r) ==
    /\ reqs[r].pc = "gen_wait"
    /\ reqs' = [reqs EXCEPT ![r] = BeginSave(@)]
    /\ UNCHANGED <<slots, store, next_id, nreq, cfgvars, cvars, gvars>>

\* Resumed after a chunk event: the next fragment is requested.
StreamResumeChunk(r) ==
    /\ reqs[r].pc = "chunk_yield"
    /\ reqs' = [reqs EXCEPT ![r] =
            IF @.adapter_done THEN BeginSave(@) ELSE [@ EXCEPT !.pc = "gen_wait"]]
    /\ UNCHANGED <<slots, store, next_id, nreq, cfgvars, cvars, gvars>>

\* title = await gemini_service.generate_title(message): it returns a title
\* (generated, or the fallback), never an exception.
TitleReturns(r) ==
    /\ reqs[r].pc = "title_wait"
    /\ reqs' = [reqs EXCEPT ![r].title = "title", ![r].pc = "write_wait"]
    /\ UNCHANGED <<slots, store, next_id, nreq, cfgvars, cvars, gvars>>

\* The store call the save makes.
WriteOpCreate(conversation_id) == "create"

WriteOp(conversation_id) == IF conversation_id # NoId THEN "append" ELSE "create"

\* The messages of one turn, as handed to the store in one call.
TurnMessagesLastChunk(q) ==
    <<Message("user", q.message, q.turn),
      Message("ai", IF q.response_chunks = <<>> THEN <<>>
                    ELSE q.response_chunks[Len(q.response_chunks)], q.turn)>>

TurnMessagesUserOnly(q) == <<Message("user", q.message, q.turn)>>

TurnMessages(q) ==
    <<Message("user", q.message, q.turn),
      Message("ai", Join(q.response_chunks), q.turn)>>

\* The save as a write of the whole conversation record
PersistTurnOverwrite(st, q, new_id) ==
    StoreCreate(st, IF WriteOp(q.conversation_id) = "append" THEN q.conversation_id
                    ELSE new_id,
                TurnMessages(q), q.title)

\* add_message_to_conversation(conversation_id, user_message, complete_response)
\* or create_conversation(user_message, complete_response, title)
PersistTurn(st, q, new_id) ==
    IF WriteOp(q.conversation_id) = "append"
    THEN StoreAppend(st, q.conversation_id, TurnMessages(q))
    ELSE StoreCreate(st, new_id, TurnMessages(q), q.title)

\* What the stream knows of its store call: how it ended, what it returned,
\* the messages it was given and the number of events emitted before it.
Written(q, state, ok, id) ==
    [state |-> state, ok |-> ok, id |-> id, msgs |-> TurnMessages(q), at |-> Len(q.events)]

\* The store serves the write: it commits and returns, or raises.
StoreWrite(r) ==
    /\ reqs[r].pc = "write_wait"
    /\ \E store_raises \in BOOLEAN :
        LET q == [reqs[r] EXCEPT !.pc = "write_ret",
                                 !.store_calls = Append(@, WriteOp(reqs[r].conversation_id))]
            w == PersistTurn(store, q, next_id)
        IN  IF store_raises
            THEN /\ reqs' = [reqs EXCEPT ![r] =
                        [q EXCEPT !.write = Written(q, "raised", FALSE, NoId)]]
                 /\ UNCHANGED <<store, next_id>>
            ELSE /\ store' = w.store
                 /\ IF WriteOp(q.conversation_id) = "append"
                    THEN /\ reqs' = [reqs EXCEPT ![r] =
                                [q EXCEPT !.write = Written(q, "returned", w.result, NoId)]]
                         /\ UNCHANGED next_id
                    ELSE /\ reqs' = [reqs EXCEPT ![r] =
                                [q EXCEPT !.write = Written(q, "returned", TRUE, w.result)]]
                         /\ next_id' = next_id + 1
    /\ UNCHANGED <<slots, nreq, cfgvars, cvars, gvars>>

\* final_conversation_id
FinalConversationId(q) ==
    IF q.conversation_id # NoId THEN q.conversation_id ELSE q.write.id

\* yield the done event
DoneEventsThenError(q) == <<DoneEvent(FinalConversationId(q)), ErrorEvent>>

DoneEvents(q) == <<DoneEvent(FinalConversationId(q))>>

\* The store call returns to the stream: done, or the except clause.
StreamWriteReturns(r) ==
    /\ reqs[r].pc = "write_ret"
    /\ reqs' = [reqs EXCEPT ![r] =
            IF @.write.state = "raised" THEN StreamFails(@)
            ELSE [@ EXCEPT !.pc = "closed", !.events = @ \o DoneEvents(reqs[r])]]
    /\ UNCHANGED <<slots, store, next_id, nreq, cfgvars, cvars, gvars>>

\* The points at which the stream is suspended.
Suspended ==
    {"begin", "start_yield", "gen_wait", "chunk_yield", "title_wait", "write_wait",
     "write_ret"}

\* The caller disconnects: the task is cancelled at its suspension point
\* (CancelledError / GeneratorExit are not Exceptions) and runs no further.
DisconnectIgnored(r) ==
    /\ reqs[r].pc \in Suspended /\ ~reqs[r].cancelled
    /\ reqs' = [reqs EXCEPT ![r].cancelled = TRUE]
    /\ UNCHANGED <<slots, store, next_id, nreq, cfgvars, cvars, gvars>>

Disconnect(r) ==
    /\ reqs[r].pc \in Suspended
    /\ reqs' = [reqs EXCEPT ![r].pc = "closed", ![r].cancelled = TRUE]
    /\ UNCHANGED <<slots, store, next_id, nreq, cfgvars, cvars, gvars>>

\* The request is over; its slot serves the next one.
Forget(r) ==
    /\ reqs[r].pc \in {"closed", "rejected"}
    /\ reqs' = [reqs EXCEPT ![r] = IdleRequest]
    /\ UNCHANGED <<slots, store, next_id, nreq, cfgvars, cvars, gvars>>

---------------------------------------------------------------------------
(* routers/conversations.py: delete_conversation                           *)

delete_conversation(id) ==
    /\ store' = StoreDelete(store, id).store
    /\ UNCHANGED <<slots, reqs, next_id, nreq, cfgvars, cvars, gvars>>

---------------------------------------------------------------------------
(* Spec: the chat pipeline of one client connection, with conversations    *)
(* deleted and the caller disconnecting at any point.                      *)

\* The conversation the store holds at start: one earlier turn.
InitialStore ==
    [id \in ConvIds |->
        IF id = 1
        THEN [exists |-> TRUE,
              messages |-> <<Message("user", PlainMsg, 0), Message("ai", <<97>>, 0)>>,
              title |-> "title"]
        ELSE NoConv]

CipherIdle ==
    /\ c_pc = "off" /\ c_plain = <<>> /\ c_key = None
    /\ c_enc = Raise("", "") /\ c_dec = Raise("", "")
    /\ c_calls = <<>> /\ c_valid = Raise("", "")

GeminiIdle == g_op = "off" /\ g_in = <<>> /\ g_out = <<>>

ChatInit ==
    /\ slots = {"r1"}
    /\ reqs = [r \in Requests |-> IdleRequest]
    /\ store = InitialStore
    /\ next_id = 2
    /\ nreq = 0

---------------------------------------------------------------------------
(* SpecCipher: the cipher as a pure function of plaintext, key-identifier   *)
(* and configuration.                                                       *)

MaxPlainLen == 2

\* 'h', 'i', e-acute (two bytes in UTF-8)
PlainChars == {104, 105, 233}

Plaintexts == UNION { [1..n -> PlainChars] : n \in 0..MaxPlainLen }

ConfigInit ==
    /\ encryption_enabled \in BOOLEAN
    /\ expected_key_hash \in {None, "K1"}

Init == ConfigInit /\ ChatInit /\ CipherIdle /\ GeminiIdle

Next ==
    \/ \E r \in Requests, q \in ChatRequests : start_chat(r, q)
    \/ \E r \in Requests, q \in ChatRequests, id \in ConvIds : continue_chat(r, id, q)
    \/ \E r \in Requests :
        \/ StreamStart(r) \/ StreamResumeStart(r) \/ StreamLoadHistory(r)
        \/ GenChunk(r) \/ GenEmptyChunk(r) \/ GenFails(r) \/ GenEnds(r)
        \/ StreamResumeChunk(r) \/ TitleReturns(r)
        \/ StoreWrite(r) \/ StreamWriteReturns(r)
        \/ Disconnect(r) \/ Forget(r)
    \/ \E id \in ConvIds : delete_conversation(id)

vars == <<cfgvars, cvars, gvars, chatvars>>

Spec == Init /\ [][Next]_vars

---------------------------------------------------------------------------
(* SpecPair: two client connections at once, chat turns only. The store    *)
(* serves an append in one step (StoreWrite) or, unserialized, as a read   *)
(* of the conversation followed by a write of the list read plus the turn. *)

\* The store has read the conversation for a pending append.
StoreReads(r) ==
    /\ reqs[r].pc = "write_wait" /\ reqs[r].write.state = "none"
    /\ WriteOp(reqs[r].conversation_id) = "append"
    /\ reqs' = [reqs EXCEPT ![r].write =
            [state |-> "read", ok |-> FALSE, id |-> NoId,
             msgs |-> StoreGet(store, reqs[r].conversation_id).messages, at |-> 0]]
    /\ UNCHANGED <<slots, store, next_id, nreq, cfgvars, cvars, gvars>>

\* ... and writes back the list it read with the turn appended.
StoreWriteUnserialized(r) ==
    /\ reqs[r].pc = "write_wait" /\ reqs[r].write.state = "read"
    /\ LET q == [reqs[r] EXCEPT !.pc = "write_ret",
                                !.store_calls = Append(@, WriteOp(reqs[r].conversation_id))]
           id == q.conversation_id
       IN  /\ store' = [store EXCEPT ![id].messages = q.write.msgs \o TurnMessages(q)]
           /\ reqs' = [reqs EXCEPT ![r] =
                    [q EXCEPT !.write = Written(q, "returned", TRUE, NoId)]]
    /\ UNCHANGED <<slots, next_id, nreq, cfgvars, cvars, gvars>>

PairInit ==
    /\ encryption_enabled = FALSE /\ expected_key_hash = None
    /\ slots = Requests
    /\ reqs = [r \in Requests |-> IdleRequest]
    /\ store = InitialStore
    /\ next_id = 2
    /\ nreq = 0
    /\ CipherIdle /\ GeminiIdle

PairNext ==
    \/ \E r \in Requests, q \in ChatRequests : start_chat(r, q)
    \/ \E r \in Requests, q \in ChatRequests, id \in ConvIds : continue_chat(r, id, q)
    \/ \E r \in Requests :
        \/ StreamStart(r) \/ StreamResumeStart(r) \/ StreamLoadHistory(r)
        \/ GenChunk(r) \/ GenEmptyChunk(r) \/ GenFails(r) \/ GenEnds(r)
        \/ StreamResumeChunk(r) \/ TitleReturns(r)
        \/ StoreWrite(r) \/ StoreReads(r) \/ StoreWriteUnserialized(r)
        \/ StreamWriteReturns(r)
        \/ Disconnect(r) \/ Forget(r)

SpecPair == PairInit /\ [][PairNext]_vars

\* The steps the stream takes by itself once its consumer resumes it; the
\* external calls (the generator, the store, generate_title) are awaited
\* without a timeout and need not return.
StreamRuns(r) ==
    StreamStart(r) \/ StreamResumeStart(r) \/ StreamResumeChunk(r) \/ StreamWriteReturns(r)

SpecLive == Spec /\ \A r \in Requests : WF_vars(StreamRuns(r))

CipherInit ==
    /\ ConfigInit
    /\ c_pc = "init"
    /\ c_plain \in Plaintexts
    /\ c_key \in KeyHashes \cup {None}
    /\ c_enc = Raise("", "")
    /\ c_dec = Raise("", "")
    /\ c_calls = <<>>
    /\ c_valid = Raise("", "")
    /\ ChatInit
    /\ GeminiIdle

CipherEncrypt ==
    /\ c_pc = "init"
    /\ \E iv \in IVs : c_enc' = encrypt_payload(c_plain, c_key, iv)
    /\ c_calls' = EncryptCalls(c_plain, c_key)
    /\ c_pc' = "encrypted"
    /\ UNCHANGED <<c_plain, c_key, c_dec, c_valid, cfgvars, gvars, chatvars>>

\* One bit of a byte flipped.
FlipBit(byte, bit) ==
    IF (byte \div (2 ^ bit)) % 2 = 0 THEN byte + 2 ^ bit ELSE byte - 2 ^ bit

FlippedBits == {0, 3, 7}

\* The payload with one bit of its ciphertext or tag flipped.
Tampered(payload, pos, bit) ==
    LET bs == B64Decode(payload).value
    IN  B64Encode([bs EXCEPT ![pos] = FlipBit(@, bit)])

\* Somebody on the way changes the ciphertext or the tag of the payload.
CipherTamper ==
    /\ c_pc = "encrypted"
    /\ c_enc.ok
    /\ \E pos \in (IVLen + 1)..Len(B64Decode(c_enc.value).value), bit \in FlippedBits :
        c_enc' = Ok(Tampered(c_enc.value, pos, bit))
    /\ c_pc' = "tampered"
    /\ UNCHANGED <<c_plain, c_key, c_dec, c_calls, c_valid, cfgvars, gvars, chatvars>>

CipherDecrypt ==
    /\ c_pc \in {"encrypted", "tampered"}
    /\ c_enc.ok
    /\ c_dec' = decrypt_payload(c_enc.value, c_key)
    /\ c_calls' = DecryptCalls(c_enc.value, c_key)
    /\ c_pc' = IF c_pc = "encrypted" THEN "decrypted" ELSE "tamper_decrypted"
    /\ UNCHANGED <<c_plain, c_key, c_enc, c_valid, cfgvars, gvars, chatvars>>

\* bytes of length n: s, s+1, ...
ByteRun(n, s) == [i \in 1..n |-> (s + i * 29) % 256]

RawLens == 0..14

\* Payloads that no encrypt_payload produced: base64 of short and of long
\* byte strings, some with a character outside the alphabet appended.
RawPayloads ==
    { B64Encode(ByteRun(n, s)) : n \in RawLens \cup {IVLen + TagLen}, s \in {1, 7} }
    \cup { B64Encode(ByteRun(n, 1)) \o <<33>> : n \in RawLens }

\* decrypt_payload on a payload a client made up.
CipherDecryptRaw ==
    /\ c_pc = "init"
    /\ \E payload \in RawPayloads :
        /\ c_enc' = Ok(payload)
        /\ c_dec' = decrypt_payload(payload, c_key)
        /\ c_calls' = DecryptCalls(payload, c_key)
    /\ c_pc' = "raw_decrypted"
    /\ UNCHANGED <<c_plain, c_key, c_valid, cfgvars, gvars, chatvars>>

CipherValidate ==
    /\ c_pc = "init"
    /\ c_valid' = validate_key_hash(c_key)
    /\ c_pc' = "validated"
    /\ UNCHANGED <<c_plain, c_key, c_enc, c_dec, c_calls, cfgvars, gvars, chatvars>>

CipherNext ==
    \/ CipherEncrypt \/ CipherTamper \/ CipherDecrypt
    \/ CipherDecryptRaw \/ CipherValidate

SpecCipher == CipherInit /\ [][CipherNext]_vars

---------------------------------------------------------------------------
(* SpecGemini: GeminiService's pure functions, one call each: the contents  *)
(* built for the generator, generate_title and _insert_inline_citations.   *)

MaxHistory == 12

\* A conversation's messages: the i-th one has content <<i>>.
HistoryOfLen(n) ==
    [i \in 1..n |-> [role |-> IF i % 2 = 1 THEN "user" ELSE "ai", content |-> <<i>>]]

CallBuildContents ==
    /\ g_op = "init"
    /\ \E n \in 0..MaxHistory, message \in {PlainMsg, <<>>} :
        /\ g_in' = [conversation_history |-> HistoryOfLen(n), message |-> message]
        /\ g_out' = BuildContents(message, ContentsOf(HistoryOfLen(n)))
    /\ g_op' = "contents"
    /\ UNCHANGED <<cfgvars, cvars, chatvars>>

MaxWords == 6

\* The i-th word of a message: len copies of one letter
Word(i, len) == [j \in 1..len |-> 96 + i]

WordLens == {1, 2, 12}

\* What stands between two words: a space, two spaces, a tab and a newline
Separators == {<<32>>, <<32, 32>>, <<9, 10>>}

RECURSIVE JoinWith(_, _)
JoinWith(words, sep) ==
    IF words = <<>> THEN <<>>
    ELSE IF Len(words) = 1 THEN words[1]
    ELSE words[1] \o sep \o JoinWith(Tail(words), sep)

\* "Chat"
ShortTitle == <<67, 104, 97, 116>>

LongTitle == [j \in 1..(TitleLimit + 10) |-> 120]

\* Texts the generator may return for the title prompt.
TitleTexts ==
    {ShortTitle, <<34>> \o ShortTitle \o <<34>>,
     <<32, 39>> \o ShortTitle \o <<39, 10>>,
     LongTitle, <<34>> \o LongTitle \o <<34>>, <<>>}

TitleResponses ==
    {TitleResponse(TRUE, FALSE, <<>>), TitleResponse(FALSE, FALSE, <<>>)}
    \cup {TitleResponse(FALSE, TRUE, t) : t \in TitleTexts}

CallGenerateTitle ==
    /\ g_op = "init"
    /\ \E n \in 0..MaxWords, len \in WordLens, sep \in Separators,
          padded \in BOOLEAN, response \in TitleResponses :
        LET words == [i \in 1..n |-> Word(i, len)]
            pad == IF padded THEN sep ELSE <<>>
            first_message == pad \o JoinWith(words, sep) \o pad
        IN  /\ g_in' = [first_message |-> first_message, words |-> words,
                        response |-> response]
            /\ g_out' = generate_title(first_message, response)
    /\ g_op' = "title"
    /\ UNCHANGED <<cfgvars, cvars, chatvars>>

MaxSupports == 2

\* "abc"
ResponseText == <<97, 98, 99>>

\* Supports over ResponseText and one position past its end, with no, one
\* or two reference indices.
Supports ==
    { GroundingSupport(b, e, refs) :
        b \in 0..(Len(ResponseText) + 1), e \in 0..(Len(ResponseText) + 1),
        refs \in {<<>>, <<1>>, <<2, 3>>} }

SupportLists ==
    UNION { {l \in [1..n -> Supports] :
                \A i \in 1..n : l[i].start_index <= l[i].end_index} : n \in 0..MaxSupports }

CallInsertCitations ==
    /\ g_op = "init"
    /\ \E grounding_supports \in SupportLists :
        /\ g_in' = [text |-> ResponseText, grounding_supports |-> grounding_supports]
        /\ g_out' = _insert_inline_citations(ResponseText, grounding_supports)
    /\ g_op' = "citations"
    /\ UNCHANGED <<cfgvars, cvars, chatvars>>

MaxGroundingChunks == 3

\* Chunks with web data and a uri, with web data and an empty uri, without
\* web data.
GroundingChunks ==
    {GroundingChunk(TRUE, "https://a.example/1"), GroundingChunk(TRUE, "https://b.example/2"),
     GroundingChunk(TRUE, ""), GroundingChunk(FALSE, "")}

CallExtractReferences ==
    /\ g_op = "init"
    /\ \E n \in 0..MaxGroundingChunks :
        \E grounding_chunks \in [1..n -> GroundingChunks] :
            /\ g_in' = [grounding_chunks |-> grounding_chunks]
            /\ g_out' = ExtractReferences(grounding_chunks)
    /\ g_op' = "references"
    /\ UNCHANGED <<cfgvars, cvars, chatvars>>

GeminiInit ==
    /\ encryption_enabled = FALSE /\ expected_key_hash = None
    /\ ChatInit /\ CipherIdle
    /\ g_op = "init" /\ g_in = <<>> /\ g_out = <<>>

GeminiNext ==
    \/ CallBuildContents \/ CallGenerateTitle \/ CallInsertCitations
    \/ CallExtractReferences

SpecGemini == GeminiInit /\ [][GeminiNext]_vars

---------------------------------------------------------------------------
(* Properties of the chat pipeline                                         *)

IsTerminal(e) == e.type \in {"done", "error"}

Terminals(q) == {i \in 1..Len(q.events) : IsTerminal(q.events[i])}

ChunkEvents(q) == SelectSeq(q.events, LAMBDA e : e.type = "chunk")

LastEvent(q) == q.events[Len(q.events)]

\* The stream ran to its end (it was not cut off by a disconnect).
Finished(q) == q.pc = "closed" /\ ~q.cancelled

\* The store writes the request made.
Writes(q) == SelectSeq(q.store_calls, LAMBDA op : op \in {"append", "create"})

\* The fragment a chunk event carries: its content, decrypted under the
\* event's key hash when it is marked encrypted.
ChunkPlain(e) ==
    IF e.encrypted THEN decrypt_payload(e.content, e.key_hash).value ELSE e.content

\* C1: every run of create_sse_stream that ends, whatever failed on the way
\* (history load, generation, store write), has emitted exactly one terminal
\* event (done or error); no run ever holds two.
C1_ExactlyOneTerminal ==
    \A r \in Requests :
        /\ Cardinality(Terminals(reqs[r])) <= 1
        /\ Finished(reqs[r]) => Cardinality(Terminals(reqs[r])) = 1

C1_Witness ==
    \E r \in Requests :
        /\ Finished(reqs[r]) /\ reqs[r].write.state = "raised"
        /\ Len(ChunkEvents(reqs[r])) = MaxChunks
        /\ LastEvent(reqs[r]).type = "error"

\* C2: the events of a stream are conversation_start (at most once, first),
\* then chunk events, then the terminal event; a conversation_start is never
\* preceded by anything and a terminal event is never followed by anything.
C2_EventOrder ==
    \A r \in Requests : \A i \in 1..Len(reqs[r].events) :
        LET e == reqs[r].events[i]
        IN  /\ e.type \in {"conversation_start", "chunk", "done", "error"}
            /\ e.type = "conversation_start" => i = 1
            /\ IsTerminal(e) => i = Len(reqs[r].events)

C2_Witness ==
    \E r \in Requests :
        /\ Len(reqs[r].events) = MaxChunks + 2
        /\ reqs[r].events[1].type = "conversation_start"
        /\ reqs[r].events[2].type = "chunk"
        /\ LastEvent(reqs[r]).type = "done"

\* C3: the i-th chunk event carries the i-th fragment the generator yielded,
\* none dropped, duplicated or merged, so the chunk contents concatenate to
\* the fragments' concatenation.
C3_ChunksAreFragments ==
    \A r \in Requests :
        LET chunks == ChunkEvents(reqs[r])
        IN  /\ Len(chunks) = Len(reqs[r].fragments)
            /\ \A i \in 1..Len(chunks) : ChunkPlain(chunks[i]) = reqs[r].fragments[i]
            /\ Join([i \in 1..Len(chunks) |-> ChunkPlain(chunks[i])])
                    = Join(reqs[r].fragments)

C3_Witness ==
    \E r \in Requests :
        /\ reqs[r].fragments = <<FragmentText(1), FragmentText(2)>>
        /\ Len(reqs[r].events) > 0 /\ LastEvent(reqs[r]).type = "done"
        /\ ChunkEvents(reqs[r])[2].encrypted

\* C4: the first event of a stream is conversation_start if and only if the
\* request came without a conversation id; a stream continuing an existing
\* conversation emits no conversation_start at all.
C4_ConversationStart ==
    \A r \in Requests :
        /\ Len(reqs[r].events) > 0 =>
            (reqs[r].events[1].type = "conversation_start" <=> reqs[r].path_id = NoId)
        /\ reqs[r].path_id # NoId =>
            \A i \in 1..Len(reqs[r].events) : reqs[r].events[i].type # "conversation_start"

C4_Witness ==
    \E r \in Requests :
        /\ reqs[r].path_id # NoId /\ Len(reqs[r].events) > 1
        /\ reqs[r].events[1].type = "chunk"

\* C5 as claimed: a continue-chat request on an id the store does not hold
\* (the store answering the lookup) ends with not-found, no event emitted,
\* generator not called, store not written.
C5_UnknownIdIsNotFound ==
    \A r \in Requests :
        (reqs[r].route = "continue" /\ ~reqs[r].path_exists /\ ~reqs[r].get_raised) =>
            /\ reqs[r].status = 404
            /\ reqs[r].events = <<>> /\ reqs[r].gen_calls = 0 /\ Writes(reqs[r]) = <<>>

\* C5 amended: such a request is rejected before the stream starts: no
\* event, no generator call, no store write; its result is not-found when
\* the decryption step passed and the store lookup returned, the decryption
\* step's client error (400 or 501) when that step failed, and 500 when the
\* lookup itself raised.
C5_UnknownIdRejected ==
    \A r \in Requests :
        (reqs[r].route = "continue" /\ ~reqs[r].path_exists) =>
            /\ reqs[r].pc = "rejected"
            /\ reqs[r].events = <<>> /\ reqs[r].gen_calls = 0 /\ Writes(reqs[r]) = <<>>
            /\ LET d == DecryptStep(reqs[r].request)
               IN  /\ ~d.ok => reqs[r].status \in {400, 501}
                   /\ (d.ok /\ reqs[r].get_raised) => reqs[r].status = 500
                   /\ (d.ok /\ ~reqs[r].get_raised) => reqs[r].status = 404

C5_Witness ==
    \E r \in Requests :
        /\ reqs[r].route = "continue" /\ ~reqs[r].path_exists
        /\ reqs[r].status = 404 /\ reqs[r].request.encrypted

\* C6: when the stream's own fetch finds the conversation missing, the
\* stream emits no chunk and ends with error.
C6_MissingConversationFails ==
    \A r \in Requests :
        reqs[r].hist_missing =>
            /\ ChunkEvents(reqs[r]) = <<>>
            /\ reqs[r].gen_calls = 0
            /\ Finished(reqs[r]) => LastEvent(reqs[r]).type = "error"

\* C7: in every store state every conversation is a run of turns, each the
\* user message followed by the same turn's assistant message; a turn's
\* user message is there if and only if its assistant message is.
C7_TurnsAreAtomic ==
    \A id \in ConvIds :
        LET m == store[id].messages
        IN  /\ Len(m) % 2 = 0
            /\ \A i \in 1..Len(m) :
                IF i % 2 = 1
                THEN m[i].role = "user" /\ m[i + 1].role = "ai" /\ m[i + 1].turn = m[i].turn
                ELSE m[i].role = "ai"
            /\ \A t \in 0..MaxRequests :
                (\E i \in 1..Len(m) : m[i].role = "user" /\ m[i].turn = t)
                <=> (\E i \in 1..Len(m) : m[i].role = "ai" /\ m[i].turn = t)

C7_Witness ==
    \E r \in Requests, id \in ConvIds :
        /\ reqs[r].cancelled /\ reqs[r].write.state = "returned"
        /\ \E i \in 1..Len(store[id].messages) :
            /\ store[id].messages[i].turn = reqs[r].turn
            /\ store[id].messages[i].role = "user"

\* C8: a store write that raised, or an append that returned its failure
\* signal, ends the stream with error and not with done, and the terminal
\* event carries no text again.
C8_WriteFailureReported ==
    \A r \in Requests :
        (/\ Finished(reqs[r])
         /\ \/ reqs[r].write.state = "raised"
            \/ reqs[r].write.state = "returned" /\ ~reqs[r].write.ok) =>
            /\ LastEvent(reqs[r]).type = "error"
            /\ LastEvent(reqs[r]).content = <<>>
            /\ \A i \in 1..Len(reqs[r].events) : reqs[r].events[i].type # "done"

\* C9: a turn is saved by at most one store write, append when the request
\* named a conversation and create when it did not; a stream that ends with
\* done made exactly one, and done carries the named id or the id create
\* returned.
C9_OneStoreWrite ==
    \A r \in Requests :
        LET q == reqs[r]
        IN  /\ Len(Writes(q)) <= 1
            /\ Writes(q) # <<>> =>
                Writes(q)[1] = (IF q.path_id # NoId THEN "append" ELSE "create")
            /\ (Len(q.events) > 0 /\ LastEvent(q).type = "done") =>
                /\ Len(Writes(q)) = 1
                /\ LastEvent(q).conversation_id =
                        (IF q.path_id # NoId THEN q.path_id ELSE q.write.id)
                /\ LastEvent(q).conversation_id # NoId

C9_Witness ==
    \E r \in Requests :
        /\ reqs[r].path_id = NoId /\ Len(reqs[r].events) > 0
        /\ LastEvent(reqs[r]) = DoneEvent(2)
        /\ Writes(reqs[r]) = <<"create">>

\* C19: the adapter never raises to the stream: when the upstream generator
\* fails, before the first fragment or after some, the adapter has yielded
\* the fragments produced so far, then its error text once, and has ended;
\* the stream goes on to the save and has an error event only if a store
\* call raised.
C19_AdapterNeverRaises ==
    \A r \in Requests :
        LET q == reqs[r]
            n == Len(q.fragments)
        IN  /\ q.adapter_done =>
                /\ n >= 1 /\ q.fragments[n] = GEN_ERROR_TEXT
                /\ \A i \in 1..(n - 1) : q.fragments[i] \in UpstreamTexts(i)
                /\ q.pc \in {"chunk_yield", "title_wait", "write_wait", "write_ret",
                              "closed"}
            /\ ~q.adapter_done => \A i \in 1..n : q.fragments[i] \in UpstreamTexts(i)
            /\ (\E i \in 1..Len(q.events) : q.events[i].type = "error") =>
                    (q.write.state = "raised" \/ q.gen_calls = 0)

C19_Witness ==
    \E r \in Requests :
        /\ reqs[r].adapter_done /\ Finished(reqs[r])
        /\ reqs[r].fragments = <<FragmentText(1), GEN_ERROR_TEXT>>
        /\ LastEvent(reqs[r]).type = "done"

\* The messages written out in routers/chat.py.
FixedMessages ==
    {"Key hash required for encrypted messages",
     "Encryption is required but message is not encrypted",
     "Conversation not found", "Failed to start chat", "Failed to continue chat"}

\* C20: the text of every error event and the detail of every HTTP error of
\* start_chat and continue_chat is one of the fixed messages of the routes,
\* never the text of the exception that caused it.
C20_MessagesAreGeneric ==
    \A r \in Requests :
        /\ reqs[r].pc = "rejected" => reqs[r].detail \in FixedMessages
        /\ \A i \in 1..Len(reqs[r].events) :
            reqs[r].events[i].type = "error" => reqs[r].events[i].error = GENERIC_ERROR

\* C21: in a stream whose request supplied a key-identifier while encryption
\* is enabled, every chunk event is marked encrypted and carries the
\* ciphertext of its fragment under that key-identifier, never the plaintext.
C21_ChunksEncrypted ==
    \A r \in Requests :
        (encryption_enabled /\ reqs[r].key_hash # None) =>
            \A i \in 1..Len(ChunkEvents(reqs[r])) :
                LET e == ChunkEvents(reqs[r])[i]
                IN  /\ e.encrypted /\ e.key_hash = reqs[r].key_hash
                    /\ e.content # reqs[r].fragments[i]
                    /\ decrypt_payload(e.content, e.key_hash) = Ok(reqs[r].fragments[i])

\* The messages of turn t that conversation id holds.
TurnMsgs(id, t) == SelectSeq(store[id].messages, LAMBDA m : m.turn = t)

\* C22: once the caller has disconnected, the stream of that request takes
\* no further step (no fragment is requested, no store call is made), and
\* the store holds of its turn either nothing or the user and the assistant
\* message together; this holds wherever the stream was suspended.
C22_DisconnectStops ==
    /\ [](\A r \in Requests :
            reqs[r].cancelled =>
                \A id \in ConvIds :
                    \/ TurnMsgs(id, reqs[r].turn) = <<>>
                    \/ /\ Len(TurnMsgs(id, reqs[r].turn)) = 2
                       /\ TurnMsgs(id, reqs[r].turn)[1].role = "user"
                       /\ TurnMsgs(id, reqs[r].turn)[2].role = "ai")
    /\ [][\A r \in Requests :
            reqs[r].cancelled => (reqs'[r] = reqs[r] \/ reqs'[r] = IdleRequest)]_vars

C22_Witness ==
    \E r \in Requests :
        /\ reqs[r].cancelled /\ reqs[r].write.state = "returned"
        /\ Len(reqs[r].fragments) = 1
        /\ \E id \in ConvIds : Len(TurnMsgs(id, reqs[r].turn)) = 2

\* C24: every request whose stream has started reaches a terminal event
\* (unless the caller disconnects): no external call holds the stream for
\* ever.
C24_EveryRequestEnds ==
    \A r \in Requests :
        (reqs[r].pc = "begin") ~> (Terminals(reqs[r]) # {} \/ reqs[r].cancelled)

\* C25: chunks are delivered one by one: whenever the stream waits for the
\* next fragment, every fragment it has received is out as a chunk event, and
\* a fragment that arrives is emitted in the same run, before the next one
\* is requested.
C25_IncrementalDelivery ==
    /\ [](\A r \in Requests :
            /\ Len(reqs[r].fragments) - Len(ChunkEvents(reqs[r])) <= 1
            /\ reqs[r].pc = "gen_wait" =>
                    Len(ChunkEvents(reqs[r])) = Len(reqs[r].fragments))
    /\ [][\A r \in Requests :
            Len(reqs'[r].fragments) > Len(reqs[r].fragments) =>
                /\ Len(reqs'[r].fragments) = Len(reqs[r].fragments) + 1
                /\ Len(ChunkEvents(reqs[r])) = Len(reqs[r].fragments)
                /\ Len(ChunkEvents(reqs'[r])) = Len(reqs'[r].fragments)]_vars

C25_Witness ==
    \E r \in Requests :
        /\ reqs[r].pc = "gen_wait"
        /\ Len(reqs[r].fragments) = 1 /\ Len(ChunkEvents(reqs[r])) = 1

\* The text the client meant: the plaintext of the payload it sent.
SentPlain(request) ==
    IF request.message.content = ValidCipher THEN PlainMsg ELSE request.message.content

\* C26: on every path that ends with done the store was written once, after
\* the last chunk event and just before done, with the user message as the
\* client meant it and the assistant text being the fragments of all chunk
\* events, in order and in plaintext.
C26_WriteBeforeDone ==
    \A r \in Requests :
        (Len(reqs[r].events) > 0 /\ LastEvent(reqs[r]).type = "done") =>
            LET q == reqs[r]
                chunks == ChunkEvents(q)
            IN  /\ Len(Writes(q)) = 1
                /\ q.write.at = Len(q.events) - 1
                /\ \A i \in 1..Len(q.events) : q.events[i].type = "chunk" => i <= q.write.at
                /\ Len(q.write.msgs) = 2
                /\ q.write.msgs[1].role = "user"
                /\ q.write.msgs[1].content = SentPlain(q.request)
                /\ q.write.msgs[2].role = "ai"
                /\ q.write.msgs[2].content
                        = Join([i \in 1..Len(chunks) |-> ChunkPlain(chunks[i])])

C26_Witness ==
    \E r \in Requests :
        /\ Len(reqs[r].events) > 0 /\ LastEvent(reqs[r]).type = "done"
        /\ reqs[r].request.message.content = ValidCipher
        /\ Len(ChunkEvents(reqs[r])) = 2 /\ ChunkEvents(reqs[r])[1].encrypted
        /\ reqs[r].write.msgs[2].content = FragmentText(1) \o FragmentText(2)

\* The request is one whose message the routes hand to decrypt_payload.
DecryptAttempted(request) ==
    \/ request.message.kind = "EncryptedContent"
    \/ request.message.kind = "str" /\ request.encrypted /\ request.key_hash # None

\* What decrypt_payload does for the message of the request.
InboundDecrypt(request) ==
    decrypt_payload(request.message.content,
                    IF request.message.kind = "EncryptedContent"
                    THEN request.message.key_hash ELSE request.key_hash)

\* C27: a request whose message fails to decrypt (invalid key-identifier,
\* authentication failure, malformed payload) is answered with a 4xx status
\* and nothing else: no event, no store call, no generator call.
C27_DecryptFailureIs4xx ==
    \A r \in Requests :
        (/\ reqs[r].pc # "idle"
         /\ DecryptAttempted(reqs[r].request)
         /\ ~InboundDecrypt(reqs[r].request).ok
         /\ \/ InboundDecrypt(reqs[r].request).exc = "DecryptionError"
            \/ InboundDecrypt(reqs[r].request).msg = "Invalid AES key hash") =>
            /\ reqs[r].pc = "rejected"
            /\ reqs[r].status \in 400..499
            /\ reqs[r].events = <<>>
            /\ reqs[r].store_calls = <<>>
            /\ reqs[r].gen_calls = 0

C27_Witness ==
    \E r \in Requests :
        /\ reqs[r].pc = "rejected" /\ reqs[r].route = "continue"
        /\ reqs[r].request.message.content = TamperedCipher
        /\ InboundDecrypt(reqs[r].request).msg = AUTH_FAILED
        /\ reqs[r].status = 400 /\ reqs[r].store_calls = <<>>

\* C28: a request flagged encrypted that carries no key-identifier, and a
\* plaintext request sent while encryption is required, are answered with a
\* 4xx status by both routes.
C28_InputErrorsAre4xx ==
    \A r \in Requests :
        (/\ reqs[r].pc # "idle"
         /\ reqs[r].request.message.kind = "str"
         /\ \/ reqs[r].request.encrypted /\ reqs[r].request.key_hash = None
            \/ ~reqs[r].request.encrypted /\ encryption_enabled) =>
            /\ reqs[r].pc = "rejected"
            /\ reqs[r].status \in 400..499

\* C29: with encryption enabled and no server key configured, a request
\* whose message is to be decrypted fails with a 5xx status, which a wrong
\* key-identifier never gets.
C29_MissingKeyIs5xx ==
    \A r \in Requests :
        (/\ reqs[r].pc # "idle"
         /\ encryption_enabled /\ expected_key_hash = None
         /\ DecryptAttempted(reqs[r].request)) =>
            /\ reqs[r].pc = "rejected"
            /\ reqs[r].status \in 500..599

IsPrefix(s, t) == Len(s) <= Len(t) /\ SubSeq(t, 1, Len(s)) = s

\* The store call of r commits in this step.
Commits(r) == reqs[r].pc = "write_wait" /\ reqs'[r].pc = "write_ret"

\* ... from a read of the conversation that another commit has since
\* made stale: the two store calls overlapped.
Overlapped(r) ==
    /\ Commits(r) /\ reqs[r].write.state = "read"
    /\ reqs[r].write.msgs # store[reqs[r].conversation_id].messages

\* Every stream that ended with done has its turn in its conversation.
DoneTurnsPresent ==
    \A r \in Requests :
        (Finished(reqs[r]) /\ LastEvent(reqs[r]).type = "done") =>
            TurnMsgs(FinalConversationId(reqs[r]), reqs[r].turn) = reqs[r].write.msgs

PassedDecryptStep(q) ==
    \/ q.pc \notin {"idle", "rejected"}
    \/ q.pc = "rejected" /\ q.store_calls # <<>>

\* C31: the decryption block is entered exactly when the request is flagged
\* encrypted or encryption is enabled: a request outside both cases passes
\* with its message untouched, a request inside them passes only with the
\* plaintext decrypt_payload returned; and with encryption enabled nothing is
\* handed to the generator or the store but a message decrypted and
\* authenticated under the configured key.
C31_OnlyDecryptedPassesOn ==
    \A r \in Requests :
        LET q == reqs[r]
            entered == q.request.encrypted \/ encryption_enabled
        IN  q.pc # "idle" =>
                /\ ~entered => /\ PassedDecryptStep(q)
                               /\ q.pc # "rejected" => q.message = q.request.message.content
                /\ (entered /\ PassedDecryptStep(q)) =>
                        /\ DecryptAttempted(q.request)
                        /\ InboundDecrypt(q.request).ok
                        /\ q.pc # "rejected" =>
                                q.message = InboundDecrypt(q.request).value
                /\ (encryption_enabled /\ (q.gen_calls > 0 \/ Writes(q) # <<>>)) =>
                        /\ q.key_hash = expected_key_hash
                        /\ q.request.message.content = ValidCipher
                        /\ q.message = PlainMsg
                        /\ q.write.state # "none" => q.write.msgs[1].content = PlainMsg

C31_Witness ==
    \E r \in Requests :
        /\ encryption_enabled /\ reqs[r].request.message.kind = "EncryptedContent"
        /\ reqs[r].gen_calls = 1 /\ Writes(reqs[r]) = <<"append">>
        /\ reqs[r].write.msgs[1].content = PlainMsg

\* The upstream generator failed while the stream was consuming the adapter.
GeneratorFailed(q) == q.adapter_done

\* C33: when the upstream generator fails during streaming, its error text
\* goes out as the last chunk event, like any fragment; the stream goes on to
\* the store write, whose assistant message ends with that text, and ends
\* with done. An error event follows only a store call that raised.
C33_GeneratorFailureEndsDone ==
    \A r \in Requests :
        LET q == reqs[r]
            chunks == ChunkEvents(q)
            n == Len(chunks)
        IN  GeneratorFailed(q) =>
                /\ n >= 1 /\ chunks[n].type = "chunk" /\ chunks[n].error = ""
                /\ ChunkPlain(chunks[n]) = GEN_ERROR_TEXT
                /\ chunks[n].encrypted = (encryption_enabled /\ q.key_hash # None)
                /\ q.write.state # "none" =>
                        LET text == q.write.msgs[2].content
                        IN  /\ Len(text) >= Len(GEN_ERROR_TEXT)
                            /\ SubSeq(text, Len(text) - Len(GEN_ERROR_TEXT) + 1, Len(text))
                                    = GEN_ERROR_TEXT
                /\ (q.write.state = "returned" /\ q.write.ok
                        /\ store[FinalConversationId(q)].exists) =>
                        TurnMsgs(FinalConversationId(q), q.turn) = q.write.msgs
                /\ (Finished(q) /\ q.write.state = "returned") =>
                        LastEvent(q).type = "done"
                /\ (\E i \in 1..Len(q.events) : q.events[i].type = "error") =>
                        q.write.state = "raised"

C33_Witness ==
    \E r \in Requests :
        /\ GeneratorFailed(reqs[r]) /\ Finished(reqs[r])
        /\ reqs[r].response_chunks = <<FragmentText(1), GEN_ERROR_TEXT>>
        /\ LastEvent(reqs[r]).type = "done"
        /\ store[FinalConversationId(reqs[r])].exists
        /\ TurnMsgs(FinalConversationId(reqs[r]), reqs[r].turn)[2].content
                = FragmentText(1) \o GEN_ERROR_TEXT

---------------------------------------------------------------------------
(* Properties of the cipher                                                *)

C11_TamperDetected ==
    (c_pc = "tamper_decrypted" /\ c_key = expected_key_hash) =>
        /\ ~c_dec.ok
        /\ c_dec = Raise("DecryptionError", AUTH_FAILED)
        /\ c_dec # DecryptExcept(Raise("DecryptionError", TOO_SHORT))

C11_Witness ==
    /\ c_pc = "tamper_decrypted" /\ c_key = expected_key_hash
    /\ c_plain = <<104, 233>>
    /\ c_dec.msg = AUTH_FAILED
    /\ c_calls = <<"validate_key_hash", "b64decode", "split", "sha256", "AESGCM.decrypt">>

\* C12: under a valid key-identifier, a payload whose base64 decoding has
\* fewer than 12 bytes makes decrypt_payload fail with the malformed-payload
\* outcome, before any nonce split or cipher call, and returns no plaintext.
C12_ShortPayloadRejected ==
    (/\ c_pc = "raw_decrypted"
     /\ encryption_enabled /\ expected_key_hash # None /\ c_key = expected_key_hash
     /\ B64Decode(c_enc.value).ok
     /\ Len(B64Decode(c_enc.value).value) < 12) =>
        /\ c_dec = Raise("DecryptionError", "Decryption failed: " \o TOO_SHORT)
        /\ c_calls = <<"validate_key_hash", "b64decode">>

C12_Witness ==
    /\ c_pc = "raw_decrypted" /\ encryption_enabled /\ c_key = expected_key_hash
    /\ Len(B64Decode(c_enc.value).value) = 11
    /\ c_dec.msg = "Decryption failed: " \o TOO_SHORT

---------------------------------------------------------------------------
(* Properties of GeminiService                                             *)

\* C14: the contents handed to the generator are the contents of the most
\* recent 10 messages of the history, in their order (all of them when there
\* are 10 or fewer), followed by the current message.
C14_HistoryTruncated ==
    g_op = "contents" =>
        LET h == g_in.conversation_history
            n == Len(h)
            k == IF n <= 10 THEN n ELSE 10
        IN  /\ Len(g_out) = k + 1
            /\ g_out[k + 1] = g_in.message
            /\ \A i \in 1..k : g_out[i] = h[n - k + i].content

C14_Witness ==
    /\ g_op = "contents"
    /\ Len(g_in.conversation_history) = 12
    /\ g_out = <<<<3>>, <<4>>, <<5>>, <<6>>, <<7>>, <<8>>, <<9>>, <<10>>, <<11>>, <<12>>,
                 PlainMsg>>

C16_TitleAtMost50 ==
    g_op = "title" => Len(g_out) <= 50

\* The characters a citation marker is made of: [ ] and digits
IsMarkerChar(c) == c \in {91, 93} \cup (48..57)

Letters(result) == SelectSeq(result, LAMBDA c : ~IsMarkerChar(c))

\* The marker characters that follow the i-th original character of result
\* (i = 0: those before the first one).
RECURSIVE RunAfter(_, _)
RunAfter(result, i) ==
    IF result = <<>> THEN <<>>
    ELSE IF IsMarkerChar(Head(result))
    THEN IF i = 0 THEN <<Head(result)>> \o RunAfter(Tail(result), 0)
         ELSE RunAfter(Tail(result), i)
    ELSE IF i = 0 THEN <<>> ELSE RunAfter(Tail(result), i - 1)

\* The supports whose marker belongs behind original offset i.
SupportsEndingAt(supports, i) ==
    {k \in DOMAIN supports :
        supports[k].end_index = i /\ supports[k].reference_indices # <<>>}

Orderings(S) ==
    {f \in [1..Cardinality(S) -> S] :
        \A a, b \in 1..Cardinality(S) : a # b => f[a] # f[b]}

RECURSIVE CitationsOf(_, _)
CitationsOf(supports, order) ==
    IF order = <<>> THEN <<>>
    ELSE Citations(supports[Head(order)].reference_indices)
         \o CitationsOf(supports, Tail(order))

\* C17: when every support ends within the text, the result keeps the
\* original characters in order and has, behind each original offset, the
\* markers of exactly the supports that end there.
C17_CitationsAtEndOffsets ==
    (/\ g_op = "citations"
     /\ \A k \in DOMAIN g_in.grounding_supports :
            g_in.grounding_supports[k].end_index <= Len(g_in.text)) =>
        /\ Letters(g_out) = g_in.text
        /\ \A i \in 0..Len(g_in.text) :
            \E order \in Orderings(SupportsEndingAt(g_in.grounding_supports, i)) :
                RunAfter(g_out, i) = CitationsOf(g_in.grounding_supports, order)

\* The supports that end within the text.
InRange(supports, text) == SelectSeq(supports, LAMBDA x : x.end_index <= Len(text))

\* C18: a support that ends past the text gets no marker, and the result is
\* the one the in-range supports alone would give.
C18_OutOfRangeSkipped ==
    g_op = "citations" =>
        g_out = _insert_inline_citations(g_in.text, InRange(g_in.grounding_supports, g_in.text))

\* The grounding chunks that give a reference: web data with a uri.
Usable(chunk) == chunk.has_web /\ chunk.uri # ""

C30_KeyValidatedFirst ==
    (encryption_enabled /\ expected_key_hash # None /\ c_key # expected_key_hash) =>
        /\ c_pc = "encrypted" =>
                /\ c_enc = Raise("KeyValidationError", "Invalid AES key hash")
                /\ c_calls = <<"validate_key_hash">>
        /\ c_pc = "raw_decrypted" =>
                /\ c_dec = Raise("KeyValidationError", "Invalid AES key hash")
                /\ c_calls = <<"validate_key_hash">>

C30_Witness ==
    /\ encryption_enabled /\ expected_key_hash = "K1" /\ c_key = "K2"
    /\ c_pc = "raw_decrypted"
    /\ Len(B64Decode(c_enc.value).value) = IVLen + TagLen
    /\ c_dec.exc = "KeyValidationError" /\ c_calls = <<"validate_key_hash">>
====
